---- MODULE Spec2Model ----
(***************************************************************************)
(* docfmt: Config::new_registry, Config::read_data, Config::write_output   *)
(* and Config::merge of src/config.rs as state machines.                   *)
(*                                                                         *)
(* Strings (paths, template names) are sequences of tokens: "/" and "."    *)
(* are the separator and the dot, every other token is a run of ordinary   *)
(* characters. serde_json::Value is a tagged record.                       *)
(***************************************************************************)
EXTENDS Integers, Sequences, FiniteSets, TLC

VARIABLES
    \* Config::merge(a, b) called on its own
    mpc, ma, mb, mold,
    \* Config::read_data
    dpc, inline, ndata, datafiles, data, dfailed, derrors, dresult,
    \* Config::write_output
    force, disk, wcontent, wioerr, wbefore, wresult, writes,
    \* Config::new_registry
    pc, template, extensions, include, idx, visited, walked, nentries,
    failed, registry, errors, log, last, result

mergeVars == <<mpc, ma, mb, mold>>
dataVars == <<dpc, inline, ndata, datafiles, data, dfailed, derrors, dresult>>
outVars == <<force, disk, wcontent, wioerr, wbefore, wresult, writes>>
regVars == <<pc, template, extensions, include, idx, visited, walked, nentries,
             failed, registry, errors, log, last, result>>
vars == <<mergeVars, dataVars, outVars, regVars>>

\* Option::None and Option::Some
None == [t |-> "none"]
Some(x) == [t |-> "some", v |-> x]
IsSome(o) == o.t = "some"

(***************************************************************************)
(* serde_json::Value                                                       *)
(***************************************************************************)
Null == [t |-> "null"]
Num(n) == [t |-> "num", n |-> n]
Arr(s) == [t |-> "arr", s |-> s]
Obj(m) == [t |-> "obj", m |-> m]

IsNull(v) == v.t = "null"
IsObj(v) == v.t = "obj"

\* serde_json::Map::remove
MapRemove(m, k) == [j \in (DOMAIN m) \ {k} |-> m[j]]

\* serde_json::Map::entry(k).or_insert(default): the value then held at k
EntryOrInsert(m, k, default) == IF k \in DOMAIN m THEN m[k] ELSE default

\* storing v through the reference entry(k).or_insert(..) hands out
MapSet(m, k, v) == [j \in (DOMAIN m) \cup {k} |-> IF j = k THEN v ELSE m[j]]

RECURSIVE merge(_, _), MergeLoop(_, _, _)

\* a plausible slip of the loop body: the null is stored instead of removing
MergeStepStoresNull(am, k, v) ==
    IF IsNull(v)
    THEN MapSet(am, k, Null)
    ELSE MapSet(am, k, merge(EntryOrInsert(am, k, Null), v))

\* a slip: a new key starts from an empty mapping instead of null
MergeStepEmptyPlaceholder(am, k, v) ==
    IF IsNull(v)
    THEN MapRemove(am, k)
    ELSE MapSet(am, k, merge(EntryOrInsert(am, k, Obj(<<>>)), v))

\* one iteration of `for (k, v) in b`
MergeStep(am, k, v) ==
    IF IsNull(v)
    THEN MapRemove(am, k)
    ELSE MapSet(am, k, merge(EntryOrInsert(am, k, Null), v))

\* the loop `for (k, v) in b` over the keys ks still to visit
MergeLoop(am, bm, ks) ==
    IF ks = {}
    THEN am
    ELSE LET k == CHOOSE j \in ks : TRUE
         IN  MergeLoop(MergeStep(am, k, bm[k]), bm, ks \ {k})

\* Config::merge(a, b): the value a holds afterwards
merge(a, b) ==
    IF IsObj(a) /\ IsObj(b)
    THEN Obj(MergeLoop(a.m, b.m, DOMAIN b.m))
    ELSE b

(***************************************************************************)
(* The values the checks range over. Numbers carry the index of the        *)
(* document they come from, so that a value's origin shows in the result.  *)
(***************************************************************************)
Keys == {"a", "b"}

\* all mappings from a subset of ks to vs
ObjectsOver(ks, vs) == UNION {[d -> vs] : d \in SUBSET ks}

Scalars(n) == {Null, Num(n), Arr(<<Num(n)>>)}
Inner(n) == {Obj(m) : m \in ObjectsOver(Keys, Scalars(n))}
Outer(n) == {Obj(m) : m \in ObjectsOver(Keys, Scalars(n) \cup Inner(n))}
Values(n) == Scalars(n) \cup Outer(n)

(***************************************************************************)
(* Config::merge on its own: a is the accumulated value, b the incoming    *)
(* one; mold keeps what a held when the call was made.                     *)
(***************************************************************************)
MergeIdle == mpc = "idle" /\ ma = Null /\ mb = Null /\ mold = Null

MergeInit ==
    /\ mpc = "call"
    /\ ma \in Values(1)
    /\ mb \in Values(2)
    /\ mold = Null

MergeCall ==
    /\ mpc = "call"
    /\ ma' = merge(ma, mb)
    /\ mold' = ma
    /\ mpc' = "done"
    /\ UNCHANGED mb

(***************************************************************************)
(* Config::read_data                                                       *)
(***************************************************************************)
MaxDataFiles == 2

\* what a document of the i-th data file can hold
DocValues(i) == {Null, Num(i), Obj([a |-> Num(i)]), Obj([b |-> Num(i)])}
JsonDocs(i) == {Num(i), Arr(<<Num(i)>>)}
                 \cup {Obj(m) : m \in ObjectsOver(Keys, DocValues(i))}
\* a TOML document is a table and holds no null
TomlDocs(i) == {Obj(m) : m \in ObjectsOver(Keys, {Num(i), Obj([a |-> Num(i)])})}

\* The i-th declared data file: whether File::open and read_to_string succeed,
\* its extension, and what its parser returns (None: a parse error).
DataFile(i) ==
    {[opens |-> FALSE, reads |-> FALSE, ext |-> "json", doc |-> None],
     [opens |-> TRUE, reads |-> FALSE, ext |-> "json", doc |-> None],
     [opens |-> TRUE, reads |-> TRUE, ext |-> "json", doc |-> None],
     [opens |-> TRUE, reads |-> TRUE, ext |-> "toml", doc |-> None]}
    \cup {[opens |-> TRUE, reads |-> TRUE, ext |-> "json", doc |-> Some(v)] :
             v \in JsonDocs(i)}
    \cup {[opens |-> TRUE, reads |-> TRUE, ext |-> "toml", doc |-> Some(v)] :
             v \in TomlDocs(i)}
    \cup {[opens |-> TRUE, reads |-> TRUE, ext |-> e, doc |-> Some(Obj([a |-> Num(i)]))] :
             e \in {"JSON", "yaml"}}

\* Config.data: the inline block converted by TryFrom<ConfigRead>; an absent
\* block is the empty mapping, a present one is any TOML value
InlineBlocks ==
    {Obj(<<>>), Obj([a |-> Num(0)]), Obj([a |-> Obj([a |-> Num(0)]), b |-> Num(0)]),
     Num(0)}

DataIdle ==
    /\ dpc = "idle" /\ inline = Null /\ ndata = 0 /\ datafiles = <<>>
    /\ data = Null /\ dfailed = FALSE /\ derrors = <<>> /\ dresult = None

\* lines 188-189: failed = false, data = self.data.clone(). ndata is the length
\* of self.datafiles; datafiles collects the files as the loop meets them.
DataInit ==
    /\ dpc = "loop"
    /\ inline \in InlineBlocks
    /\ ndata \in 0..MaxDataFiles
    /\ datafiles = <<>>
    /\ data = inline
    /\ dfailed = FALSE
    /\ derrors = <<>>
    /\ dresult = None

\* read_data's test of the extension: a slip that ignores letter case
ParserOfAnyCase(ext) ==
    IF ext \in {"json", "JSON"} THEN "json"
    ELSE IF ext = "toml" THEN "toml"
    ELSE "none"

\* lines 215-235: which parser the extension selects
ParserOf(ext) ==
    IF ext = "json" THEN "json"
    ELSE IF ext = "toml" THEN "toml"
    ELSE "none"

\* lines 202-235: whether the file takes one of the `failed = true; continue` exits
FileFails(f) ==
    \/ ~f.opens
    \/ ~f.reads
    \/ ParserOf(f.ext) = "none"
    \/ ~IsSome(f.doc)

\* a slip: the arguments of merge swapped
MergedIntoSwapped(d, f) == merge(f.doc.v, d)

\* a slip: a top-level value that is no mapping is passed over
MergedIntoMappingsOnly(d, f) == IF IsObj(f.doc.v) THEN merge(d, f.doc.v) ELSE d

\* line 237: Self::merge(&mut data, value)
MergedInto(d, f) == merge(d, f.doc.v)

\* one iteration of `for path in &self.datafiles`, on the file f found there
ReadDataFile(f) ==
    /\ dpc = "loop"
    /\ Len(datafiles) < ndata
    /\ datafiles' = Append(datafiles, f)
    /\ IF FileFails(f)
       THEN /\ dfailed' = TRUE
            /\ derrors' = Append(derrors, Len(datafiles) + 1)
            /\ UNCHANGED data
       ELSE /\ data' = MergedInto(data, f)
            /\ UNCHANGED <<dfailed, derrors>>
    /\ UNCHANGED <<dpc, inline, ndata, dresult>>

\* lines 240-243
ReturnedData(f, d) == IF f THEN None ELSE Some(d)

DataReturn ==
    /\ dpc = "loop"
    /\ Len(datafiles) = ndata
    /\ dresult' = ReturnedData(dfailed, data)
    /\ dpc' = "done"
    /\ UNCHANGED <<inline, ndata, datafiles, data, dfailed, derrors>>

(***************************************************************************)
(* Config::write_output. disk is what the output path holds: None when the *)
(* path does not exist, Some(text) for a file with that text.              *)
(***************************************************************************)
MaxWrites == 2

Contents == {"", "Hello World!", "Goodbye!"}

OutIdle ==
    /\ force = FALSE /\ disk = None /\ wcontent = "" /\ wioerr = FALSE
    /\ wbefore = None /\ wresult = FALSE /\ writes = 0

OutInit ==
    /\ disk \in {None} \cup {Some(c) : c \in Contents}
    /\ force = FALSE /\ wcontent = "" /\ wioerr = FALSE
    /\ wbefore = None /\ wresult = FALSE /\ writes = 0

\* a slip: the guard tests force alone
RefusesUnlessForce(d, f) == ~f

\* line 249: self.output.exists() && !self.force
Refuses(d, f) == IsSome(d) /\ ~f

\* line 254, std::fs::write failing: the file could not be created or opened
\* (the path is as before), or it was created or truncated and the write failed
\* part-way (it holds a prefix of the content, here the empty one)
AfterFailedWrite(d) == {d, Some("")}

\* write_output(content) of a Config whose force flag is f; e: std::fs::write fails
WriteOutput(f, content, e) ==
    /\ writes < MaxWrites
    /\ writes' = writes + 1
    /\ force' = f
    /\ wcontent' = content
    /\ wioerr' = e
    /\ wbefore' = disk
    /\ IF Refuses(disk, f)
       THEN wresult' = FALSE /\ disk' = disk
       ELSE IF e
            THEN wresult' = FALSE /\ disk' \in AfterFailedWrite(disk)
            ELSE wresult' = TRUE /\ disk' = Some(content)

(***************************************************************************)
(* std::path::Path on token sequences                                      *)
(***************************************************************************)
Sep == "/"
Dot == "."
\* a run of bytes that is not valid UTF-8
Bad == "<FF>"

\* the last position of tok in s, 0 when s does not hold it
LastIndex(s, tok) ==
    IF \E i \in 1..Len(s) : s[i] = tok
    THEN CHOOSE i \in 1..Len(s) : s[i] = tok /\ \A j \in (i + 1)..Len(s) : s[j] # tok
    ELSE 0

\* Path::file_name: the last component, None for the empty path and for ".."
file_name(p) ==
    LET name == SubSeq(p, LastIndex(p, Sep) + 1, Len(p))
    IN  IF name = <<>> \/ name = <<Dot, Dot>> THEN None ELSE Some(name)

\* std's rsplit_file_at_dot: (before, after) of the last dot of a file name
rsplit_file_at_dot(file) ==
    LET i == LastIndex(file, Dot)
    IN  IF file = <<Dot, Dot>> \/ i = 1
        THEN [before |-> Some(file), after |-> None]
        ELSE IF i = 0
             THEN [before |-> None, after |-> Some(file)]
             ELSE [before |-> Some(SubSeq(file, 1, i - 1)),
                   after |-> Some(SubSeq(file, i + 1, Len(file)))]

\* Path::file_stem: before.or(after)
file_stem(p) ==
    IF ~IsSome(file_name(p))
    THEN None
    ELSE LET r == rsplit_file_at_dot(file_name(p).v)
         IN  IF IsSome(r.before) THEN r.before ELSE r.after

\* Path::extension: before.and(after)
extension(p) ==
    IF ~IsSome(file_name(p))
    THEN None
    ELSE LET r == rsplit_file_at_dot(file_name(p).v)
         IN  IF IsSome(r.before) THEN r.after ELSE None

\* Path::parent
parent(p) ==
    IF p = <<>> THEN None ELSE Some(SubSeq(p, 1, LastIndex(p, Sep) - 1))

\* Path::strip_prefix, by whole components
strip_prefix(p, base) ==
    IF base = <<>> THEN Some(p)
    ELSE IF p = base THEN Some(<<>>)
    ELSE IF /\ Len(p) > Len(base) + 1
            /\ SubSeq(p, 1, Len(base)) = base
            /\ p[Len(base) + 1] = Sep
         THEN Some(SubSeq(p, Len(base) + 2, Len(p)))
         ELSE None

\* Path::with_extension(""): the file name cut down to its stem
with_extension_empty(p) ==
    IF ~IsSome(file_stem(p))
    THEN p
    ELSE SubSeq(p, 1, Len(p) - Len(file_name(p).v)) \o file_stem(p).v

\* OsStr::to_str
to_str(s) == IF \E i \in 1..Len(s) : s[i] = Bad THEN None ELSE Some(s)

(***************************************************************************)
(* Config::new_registry. The registry maps a template name to the file it  *)
(* was read from (Handlebars keeps its templates in a map keyed by name,   *)
(* and registering under a name puts the template at that key). log is the *)
(* set of registrations that succeeded, last the latest path handled,      *)
(* visited the positions of Config.include the loop body has run for.      *)
(* The strict and follow flags only reach the Handlebars and WalkDir       *)
(* options and the log output.                                             *)
(***************************************************************************)
MaxInclude == 2
MaxEntries == 2

MainName == <<"main">>

\* Config.template
Templates == {<<"tests", Sep, "main", Dot, "hbs">>}

\* Config.extensions: the command line's default, and the list of the tests
ExtensionLists == {<< <<"md">>, <<"markdown">> >>, << <<"hbs">>, <<"md">> >>}

\* Config.include: paths that are directories, plain files, or neither
IncludeDirs == {<<"tests", Sep, "input1">>, <<Dot, "cfg">>}
IncludeFiles ==
    {<<"other", Sep, "file", Dot, "txt">>, <<"main", Dot, "md">>,
     <<"tests", Sep, Dot, "hidden", Dot, "md">>}
IncludeMissing == {<<"missing">>}
IncludePaths == IncludeDirs \cup IncludeFiles \cup IncludeMissing

RECURSIVE ListsOfLen(_, _)
ListsOfLen(S, k) ==
    IF k = 0 THEN {<<>>} ELSE {Append(l, x) : l \in ListsOfLen(S, k - 1), x \in S}

\* Path::is_dir, Path::is_file
is_dir(p) == p \in IncludeDirs
is_file(p) == p \in IncludeFiles

\* what lies below a walked directory
RelFiles ==
    {<<"file", Dot, "md">>, <<"file", Dot, "markdown">>, <<"file", Dot, "txt">>,
     <<Dot, "hidden", Dot, "md">>, <<Bad, Dot, "md">>,
     <<"file", Dot, Bad>>, <<Dot, "git", Sep, "file", Dot, "md">>}

\* What WalkDir::new(dir) can yield: an entry has a path, the kind its metadata
\* reports, and the step that fails for it ("walk": the iterator yields Err,
\* "meta": entry.metadata() fails, "tpl": register_template_file fails).
Entries(dir) ==
    {[path |-> dir \o <<Sep>> \o r, kind |-> "file", fault |-> "none"] : r \in RelFiles}
    \cup {[path |-> dir \o <<Sep, "file", Dot, "md">>, kind |-> "file", fault |-> f] :
             f \in {"walk", "meta", "tpl"}}
    \cup {[path |-> dir, kind |-> "dir", fault |-> "none"],
          [path |-> dir \o <<Sep, "sub", Dot, "md">>, kind |-> "dir", fault |-> "none"]}

NoLast ==
    [via |-> "none", path |-> <<>>, kind |-> "none", fault |-> "none",
     act |-> "none", name |-> <<>>, before |-> FALSE]

RegIdle ==
    /\ pc = "idle" /\ template = <<>> /\ extensions = <<>> /\ include = <<>>
    /\ idx = 0 /\ visited = {} /\ walked = {} /\ nentries = 0 /\ failed = FALSE
    /\ registry = <<>> /\ errors = 0 /\ log = {} /\ last = NoLast /\ result = None

\* lines 64-65: failed = false, registry = Handlebars::new()
RegInit ==
    /\ pc = "main"
    /\ template \in Templates
    /\ extensions \in ExtensionLists
    /\ include \in UNION {ListsOfLen(IncludePaths, k) : k \in 0..MaxInclude}
    /\ idx = 1
    /\ visited = {}
    /\ walked = {}
    /\ nentries = 0
    /\ failed = FALSE
    /\ registry = <<>>
    /\ errors = 0
    /\ log = {}
    /\ last = NoLast
    /\ result = None

\* Handlebars::register_template_file(name, path) when it returns Ok
Registered(reg, name, path) ==
    [n \in (DOMAIN reg) \cup {name} |-> IF n = name THEN path ELSE reg[n]]

\* Vec::contains
Contains(list, x) == \E i \in 1..Len(list) : list[i] = x

\* a slip: the test is made on every component of the path
IsHiddenAnywhere(p) ==
    \E i \in 1..Len(p) : p[i] = Dot /\ (i = 1 \/ p[i - 1] = Sep)

\* lines 129-132: stem.as_bytes().first() == Some(&b'.') on the file's stem
IsHidden(p) == file_stem(p).v # <<>> /\ file_stem(p).v[1] = Dot

\* a slip: the prefix is not stripped, the name keeps the whole path
NameOfWhole(path, root) == to_str(with_extension_empty(path))

\* lines 140-153: the template name of a walked file
NameOf(path, root) == to_str(with_extension_empty(strip_prefix(path, root).v))

\* a slip: the name keeps the directories of the included file
NameOfFileWithDirs(path) == to_str(with_extension_empty(path))

\* lines 165-170: the template name of a plain included file
NameOfFile(path) == to_str(file_name(with_extension_empty(path)).v)

Skip == [act |-> "skip", name |-> <<>>]
Fail == [act |-> "fail", name |-> <<>>]
Register(name) == [act |-> "register", name |-> name]

\* lines 88-161: the body of the walk's loop for entry e, below include path dir
EntryOutcome(e, dir, exts) ==
    LET root == IF IsSome(parent(dir)) THEN parent(dir).v ELSE <<>>
        ext == extension(e.path)
    IN  IF e.fault = "walk" THEN Fail
        ELSE IF ~IsSome(ext) THEN Skip
        ELSE IF ~IsSome(to_str(ext.v)) THEN Fail
        ELSE IF ~Contains(exts, ext.v) THEN Skip
        ELSE IF e.fault = "meta" THEN Fail
        ELSE IF e.kind # "file" THEN Skip
        ELSE IF ~IsSome(file_stem(e.path)) THEN Fail
        ELSE IF IsHidden(e.path) THEN Skip
        ELSE IF ~IsSome(NameOf(e.path, root)) THEN Fail
        ELSE IF e.fault = "tpl" THEN Fail
        ELSE Register(NameOf(e.path, root).v)

\* a slip: a step that succeeds clears the flag
FlagAfterCleared(f, act) == act = "fail"

\* `failed = true` on the failing exits, untouched on the others
FlagAfter(f, act) == f \/ act = "fail"

\* the effect of one outcome on the registry, the flag and the records
Apply(via, e, o) ==
    /\ failed' = FlagAfter(failed, o.act)
    /\ errors' = IF o.act = "fail" THEN errors + 1 ELSE errors
    /\ registry' = IF o.act = "register"
                   THEN Registered(registry, o.name, e.path) ELSE registry
    /\ log' = IF o.act = "register"
              THEN log \cup {[name |-> o.name, path |-> e.path, via |-> via]} ELSE log
    /\ last' = [via |-> via, path |-> e.path, kind |-> e.kind, fault |-> e.fault,
                act |-> o.act, name |-> o.name, before |-> failed]

\* a file named outright, and whether register_template_file succeeds for it
PlainFile(path, ok) ==
    [path |-> path, kind |-> "file", fault |-> IF ok THEN "none" ELSE "tpl"]

\* lines 74-79: the main template; ok: register_template_file succeeds
RegisterMain(ok) ==
    /\ pc = "main"
    /\ Apply("main", PlainFile(template, ok), IF ok THEN Register(MainName) ELSE Fail)
    /\ pc' = "include"
    /\ UNCHANGED <<template, extensions, include, idx, visited, walked, nentries,
                   result>>

\* lines 83-87: the include path is a directory, the walk starts
EnterDir ==
    /\ pc = "include"
    /\ idx <= Len(include)
    /\ is_dir(include[idx])
    /\ pc' = "walk"
    /\ visited' = visited \cup {idx}
    /\ walked' = {}
    /\ UNCHANGED <<template, extensions, include, idx, nentries, failed,
                   registry, errors, log, last, result>>

\* lines 87-162: the walk yields e
WalkEntry(e) ==
    /\ pc = "walk"
    /\ nentries < MaxEntries
    /\ e.path \notin walked
    /\ walked' = walked \cup {e.path}
    /\ nentries' = nentries + 1
    /\ Apply("dir", e, EntryOutcome(e, include[idx], extensions))
    /\ UNCHANGED <<pc, template, extensions, include, idx, visited, result>>

\* the loop `for path in &self.include` moves on, whatever the flag
NextInclude(i, f) == i + 1

\* the walk is exhausted and its iterator dropped
WalkEnd ==
    /\ pc = "walk"
    /\ pc' = "include"
    /\ idx' = NextInclude(idx, failed)
    /\ walked' = {}
    /\ UNCHANGED <<template, extensions, include, visited, nentries,
                   failed, registry, errors, log, last, result>>

\* lines 163-178: the include path is a plain file; ok: register_template_file succeeds
IncludeFile(ok) ==
    /\ pc = "include"
    /\ idx <= Len(include)
    /\ ~is_dir(include[idx])
    /\ is_file(include[idx])
    /\ visited' = visited \cup {idx}
    /\ Apply("file", PlainFile(include[idx], ok),
             IF ok THEN Register(NameOfFile(include[idx]).v) ELSE Fail)
    /\ idx' = NextInclude(idx, failed')
    /\ UNCHANGED <<pc, template, extensions, include, walked, nentries, result>>

\* the include path is neither: nothing is done for it
IncludeOther ==
    /\ pc = "include"
    /\ idx <= Len(include)
    /\ ~is_dir(include[idx])
    /\ ~is_file(include[idx])
    /\ visited' = visited \cup {idx}
    /\ last' = [via |-> "other", path |-> include[idx], kind |-> "none",
                fault |-> "none", act |-> "skip", name |-> <<>>, before |-> failed]
    /\ idx' = NextInclude(idx, failed)
    /\ UNCHANGED <<pc, template, extensions, include, walked, nentries, failed,
                   registry, errors, log, result>>

\* lines 180-183
ReturnedRegistry(f, reg) == IF f THEN None ELSE Some(reg)

RegReturn ==
    /\ pc = "include"
    /\ idx > Len(include)
    /\ result' = ReturnedRegistry(failed, registry)
    /\ pc' = "done"
    /\ UNCHANGED <<template, extensions, include, idx, visited, walked, nentries,
                   failed, registry, errors, log, last>>

(***************************************************************************)
(* The specifications: one per function, the others' state at rest         *)
(***************************************************************************)
dataRest == <<mergeVars, outVars, regVars>>
outRest == <<mergeVars, dataVars, regVars>>
regRest == <<mergeVars, dataVars, outVars>>

MergeNext == MergeCall /\ UNCHANGED <<dataVars, outVars, regVars>>

InitMerge == MergeInit /\ DataIdle /\ OutIdle /\ RegIdle

SpecMerge ==
    /\ InitMerge
    /\ [][MergeNext]_vars

DataNext ==
    \/ (\E f \in DataFile(Len(datafiles) + 1) : ReadDataFile(f)) /\ UNCHANGED dataRest
    \/ DataReturn /\ UNCHANGED dataRest

InitData == DataInit /\ MergeIdle /\ OutIdle /\ RegIdle

SpecData ==
    /\ InitData
    /\ [][DataNext]_vars

OutNext ==
    (\E f \in BOOLEAN, content \in Contents, e \in BOOLEAN : WriteOutput(f, content, e))
        /\ UNCHANGED outRest

InitOutput == OutInit /\ MergeIdle /\ DataIdle /\ RegIdle

SpecOutput ==
    /\ InitOutput
    /\ [][OutNext]_vars

RegNext ==
    \/ (\E ok \in BOOLEAN : RegisterMain(ok)) /\ UNCHANGED regRest
    \/ EnterDir /\ UNCHANGED regRest
    \/ (pc = "walk" /\ \E e \in Entries(include[idx]) : WalkEntry(e)) /\ UNCHANGED regRest
    \/ WalkEnd /\ UNCHANGED regRest
    \/ (\E ok \in BOOLEAN : IncludeFile(ok)) /\ UNCHANGED regRest
    \/ IncludeOther /\ UNCHANGED regRest
    \/ RegReturn /\ UNCHANGED regRest

InitRegistry == RegInit /\ MergeIdle /\ DataIdle /\ OutIdle

SpecRegistry ==
    /\ InitRegistry
    /\ [][RegNext]_vars

(***************************************************************************)
(* Properties                                                              *)
(***************************************************************************)

\* C1 (as claimed): when two distinct files were registered under the same name,
\* new_registry returns None.
C1_DuplicateIsFailure ==
    (pc = "done" /\ \E r1 \in log, r2 \in log : r1.name = r2.name /\ r1.path # r2.path)
        => result = None

\* the value a context holds at key k, an absent key reading as null
Resolve(m, k) == IF k \in DOMAIN m THEN m[k] ELSE Null

\* read_data returned a context after two data files that are both mappings
TwoMappingsRead ==
    /\ dpc = "done" /\ IsSome(dresult) /\ ndata = 2
    /\ IsObj(datafiles[1].doc.v) /\ IsObj(datafiles[2].doc.v)

\* C2: for mappings A and B, merge removes every key whose value in B is null,
\* keeps every key B does not mention with A's value, and does the same inside
\* every nested mapping present on both sides; no such key is left holding null.
RECURSIVE NullDeletes(_, _, _)
NullDeletes(A, B, R) ==
    /\ IsObj(R)
    /\ \A k \in DOMAIN B.m : IsNull(B.m[k]) => k \notin DOMAIN R.m
    /\ \A k \in (DOMAIN A.m) \ (DOMAIN B.m) : k \in DOMAIN R.m /\ R.m[k] = A.m[k]
    /\ \A k \in (DOMAIN A.m) \cap (DOMAIN B.m) :
           (IsObj(A.m[k]) /\ IsObj(B.m[k]))
               => k \in DOMAIN R.m /\ NullDeletes(A.m[k], B.m[k], R.m[k])

C2_MergeNullDeletion ==
    (mpc = "done" /\ IsObj(mold) /\ IsObj(mb)) => NullDeletes(mold, mb, ma)

\* {"a": {"a": 1, "b": 1}} merged with {"a": {"a": null}} gave {"a": {"b": 1}}
C2_Witness ==
    /\ mpc = "done"
    /\ mold = Obj([a |-> Obj([a |-> Num(1), b |-> Num(1)])])
    /\ mb = Obj([a |-> Obj([a |-> Null])])
    /\ ma = Obj([a |-> Obj([b |-> Num(1)])])

C4_MainKept ==
    (pc = "done" /\ IsSome(result))
        => MainName \in DOMAIN result.v /\ result.v[MainName] = template

\* the file's own name begins with a dot
HiddenName(path) == file_name(path).v[1] = Dot

\* the file's extension is one of Config.extensions
AllowedExt(path) ==
    IsSome(extension(path)) /\ Contains(extensions, extension(path).v)

\* the walk has just yielded a readable regular file with an allowed extension
WalkedAllowedFile ==
    /\ last.via = "dir" /\ last.kind = "file" /\ last.fault = "none"
    /\ AllowedExt(last.path)

\* C5: in a directory walk a regular file whose own name begins with '.' is never
\* registered, and skipping it records no failure; a file that is not hidden and
\* has an allowed extension is registered under the name of its path, whatever
\* its ancestor directories are called.
C5_HiddenFilesSkipped ==
    /\ \A r \in log : r.via = "dir" => ~HiddenName(r.path)
    /\ (WalkedAllowedFile /\ HiddenName(last.path))
           => last.act = "skip" /\ failed = last.before
    /\ (WalkedAllowedFile /\ ~HiddenName(last.path) /\ IsSome(to_str(last.path)))
           => /\ last.act = "register"
              /\ last.name \in DOMAIN registry
              /\ registry[last.name] = last.path

\* tests/input1/.git/file.md was registered, then tests/input1/.hidden.md skipped
C5_Witness ==
    /\ WalkedAllowedFile
    /\ last.path = <<"tests", Sep, "input1", Sep, Dot, "hidden", Dot, "md">>
    /\ last.act = "skip"
    /\ ~failed
    /\ <<"input1", Sep, Dot, "git", Sep, "file">> \in DOMAIN registry

\* the file cannot be opened or read, does not parse, or its extension is not
\* exactly json or toml
Unusable(f) ==
    \/ ~f.opens
    \/ ~f.reads
    \/ f.ext \notin {"json", "toml"}
    \/ f.doc = None

\* the positions of s, in order, that satisfy Unusable
RECURSIVE UnusableAt(_, _)
UnusableAt(fs, n) ==
    IF n = 0 THEN <<>>
    ELSE IF Unusable(fs[n]) THEN Append(UnusableAt(fs, n - 1), n)
    ELSE UnusableAt(fs, n - 1)

\* C6: read_data returns None exactly when some declared data file is unusable;
\* every declared file is attempted and every unusable one is reported, also
\* those declared after an earlier failure.
C6_AllOrNothingData ==
    /\ derrors = UnusableAt(datafiles, Len(datafiles))
    /\ dpc = "done"
           => /\ Len(datafiles) = ndata
              /\ dresult = None <=> \E i \in 1..ndata : Unusable(datafiles[i])

\* both of two data files failed and both were reported
C6_Witness ==
    /\ dpc = "done" /\ ndata = 2
    /\ derrors = <<1, 2>>
    /\ datafiles[1].ext = "yaml"
    /\ ~datafiles[2].opens
    /\ dresult = None

\* C7: the failure flag, once set, stays set; new_registry returns a registry
\* exactly when no failure was reported over the whole construction; and the loop
\* body has run for every include path, failure or not.
C7_AllOrNothingRegistry ==
    /\ errors > 0 => failed
    /\ pc = "done"
           => /\ IsSome(result) <=> errors = 0
              /\ visited = 1..Len(include)

\* after a failure a walked file was still registered, both include paths were
\* visited, and None was returned
C7_Witness ==
    /\ pc = "done" /\ result = None
    /\ Len(include) = 2 /\ visited = {1, 2}
    /\ last.via = "dir" /\ last.before /\ last.act = "register"

\* C8: on a path that exists, without force, write_output returns false and the
\* file is as before; with force, or on a path that does not exist, and no I/O
\* error, it returns true and the file holds exactly the new content.
C8_OutputGuard ==
    writes > 0 =>
        /\ (IsSome(wbefore) /\ ~force) => (~wresult /\ disk = wbefore)
        /\ ((force \/ ~IsSome(wbefore)) /\ ~wioerr)
               => (wresult /\ disk = Some(wcontent))

\* an existing file was kept when force was unset
C8_Witness ==
    /\ writes > 0 /\ ~force /\ ~wresult
    /\ wbefore = Some("Hello World!") /\ wcontent = "Goodbye!"
    /\ disk = Some("Hello World!")

\* C9 (as claimed): the context read_data returns is a mapping.
C9_ContextIsMapping ==
    (dpc = "done" /\ IsSome(dresult)) => IsObj(dresult.v)

\* C9 (amended): the returned context has the kind of the last data file's
\* top-level value, or of the inline block when no data file is declared: it is a
\* mapping exactly when that value is one, and a top-level value that is not a
\* mapping is returned as it is.
C9_ContextKindOfLast ==
    (dpc = "done" /\ IsSome(dresult)) =>
        LET top == IF ndata = 0 THEN inline ELSE datafiles[ndata].doc.v
        IN  /\ IsObj(dresult.v) <=> IsObj(top)
            /\ ~IsObj(top) => dresult.v = top

\* a mapping inline block and a JSON file holding an array: the array is returned
C9_Witness ==
    /\ dpc = "done" /\ ndata = 1
    /\ IsObj(inline)
    /\ datafiles[1].ext = "json"
    /\ dresult = Some(Arr(<<Num(1)>>))

\* C10: an include path that is a plain file is registered once, whatever its
\* extension, under its own stem with no directory in the name.
C10_SingleFile ==
    (last.via = "file" /\ last.fault = "none")
        => /\ last.act = "register"
           /\ last.name = file_stem(last.path).v
           /\ \A i \in 1..Len(last.name) : last.name[i] # Sep
           /\ last.name \in DOMAIN registry
           /\ registry[last.name] = last.path
           /\ Cardinality({r \in log : r.via = "file" /\ r.path = last.path}) = 1

\* other/file.txt is registered as "file" although txt is not an allowed extension
C10_Witness ==
    /\ last.via = "file" /\ last.act = "register"
    /\ last.path = <<"other", Sep, "file", Dot, "txt">>
    /\ last.name = <<"file">>
    /\ ~Contains(extensions, <<"txt">>)
    /\ registry[<<"file">>] = last.path

\* The deep merge as the claim describes it: a new key starts from an empty
\* mapping, into which the incoming value is merged.
RECURSIVE DeepMergeEmptyPlaceholder(_, _)
DeepMergeEmptyPlaceholder(a, b) ==
    IF IsObj(a) /\ IsObj(b)
    THEN LET set == {k \in DOMAIN b.m : ~IsNull(b.m[k])}
             kept == (DOMAIN a.m) \ (DOMAIN b.m)
         IN  Obj([k \in kept \cup set |->
                     IF k \in set
                     THEN DeepMergeEmptyPlaceholder(
                              IF k \in DOMAIN a.m THEN a.m[k] ELSE Obj(<<>>), b.m[k])
                     ELSE a.m[k]])
    ELSE b

\* The deep merge with a new key taking the incoming value as it is.
RECURSIVE DeepMergeWholesaleNew(_, _)
DeepMergeWholesaleNew(a, b) ==
    IF IsObj(a) /\ IsObj(b)
    THEN LET set == {k \in DOMAIN b.m : ~IsNull(b.m[k])}
             kept == (DOMAIN a.m) \ (DOMAIN b.m)
         IN  Obj([k \in kept \cup set |->
                     IF k \notin set THEN a.m[k]
                     ELSE IF k \in DOMAIN a.m
                          THEN DeepMergeWholesaleNew(a.m[k], b.m[k])
                          ELSE b.m[k]])
    ELSE b

FirstSegment(name) ==
    IF \E i \in 1..Len(name) : name[i] = Sep
    THEN SubSeq(name, 1, (CHOOSE i \in 1..Len(name) :
                             name[i] = Sep /\ \A j \in 1..(i - 1) : name[j] # Sep) - 1)
    ELSE name
LastSegment(name) == SubSeq(name, LastIndex(name, Sep) + 1, Len(name))

BeginsWithDot(seg) == seg # <<>> /\ seg[1] = Dot

\* the names registered from include paths
Included == {r \in log : r.via \in {"dir", "file"}}

\* C12 (as claimed): no name registered from a directory include root or from a
\* single included file has a first segment that begins with '.'.
C12_NoHiddenFirstSegment ==
    \A r \in Included : ~BeginsWithDot(FirstSegment(r.name))

\* C12 (amended): a name registered from a directory walk has the walked
\* directory's own name as its first segment and a last segment that does not
\* begin with '.'; the name of a single included file is that file's stem. The
\* first segment begins with '.' exactly when the include root directory, or the
\* directly named file, has a name that begins with '.'.
C12_HiddenOnlyFromIncludePath ==
    \A r \in Included :
        /\ r.via = "dir" =>
               /\ ~BeginsWithDot(LastSegment(r.name))
               /\ \E i \in 1..Len(include) :
                      /\ include[i] \in IncludeDirs
                      /\ FirstSegment(r.name) = LastSegment(include[i])
                      /\ Len(r.path) > Len(include[i])
                      /\ SubSeq(r.path, 1, Len(include[i])) = include[i]
        /\ r.via = "file" =>
               /\ r.path \in {include[i] : i \in 1..Len(include)}
               /\ FirstSegment(r.name) = r.name
               /\ BeginsWithDot(r.name) <=> BeginsWithDot(LastSegment(r.path))

\* .cfg/file.md is registered as ".cfg/file" and tests/.hidden.md as ".hidden"
C12_Witness ==
    /\ [name |-> <<Dot, "cfg", Sep, "file">>,
        path |-> <<Dot, "cfg", Sep, "file", Dot, "md">>, via |-> "dir"] \in log
    /\ [name |-> <<Dot, "hidden">>,
        path |-> <<"tests", Sep, Dot, "hidden", Dot, "md">>, via |-> "file"] \in log

====
